---------------------------- MODULE Spec2Model ----------------------------
(***************************************************************************)
(* Model of the life cycle observer registry (@loopback/core) and of the   *)
(* express middleware registry (@loopback/rest).                           *)
(*                                                                         *)
(* Both registries discover tagged bindings of a Context, partition them   *)
(* into named groups (phases), order the groups by a configured list and   *)
(* either notify them of life cycle events or assemble them in a router.   *)
(***************************************************************************)
EXTENDS Integers, Sequences, FiniteSets, Bags, TLC

(***************************************************************************)
(* Bounds of the model.                                                    *)
(***************************************************************************)
\* Largest number of bindings registered in the context.
MaxBindings == 3
\* Largest length of groupsByOrder / phasesByOrder.
MaxOrder == 2
\* Largest number of start()/stop() calls in a behaviour.
MaxCalls == 2
\* Largest number of changes of the context or the options between two calls.
MaxChanges == 1

(***************************************************************************)
(* Strings.  Group names are TLA+ strings; JavaScript compares them by     *)
(* UTF-16 code units, so every name of the model has its code units.       *)
(***************************************************************************)
CodeUnits(s) ==
    CASE s = ""       -> <<>>
      [] s = "a"      -> <<97>>
      [] s = "auth"   -> <<97, 117, 116, 104>>
      [] s = "log"    -> <<108, 111, 103>>
      [] s = "b"      -> <<98>>
      [] s = "db"     -> <<100, 98>>
      [] s = "server" -> <<115, 101, 114, 118, 101, 114>>
      [] s = "x"      -> <<120>>

RECURSIVE SeqLess(_, _)
SeqLess(u, v) ==
    IF v = <<>> THEN FALSE
    ELSE IF u = <<>> THEN TRUE
    ELSE IF Head(u) # Head(v) THEN Head(u) < Head(v)
    ELSE SeqLess(Tail(u), Tail(v))

\* s < t on JavaScript strings
StrLess(s, t) == SeqLess(CodeUnits(s), CodeUnits(t))

(***************************************************************************)
(* Bindings.  A binding has a key, a type, a scope and a tag map; a tag    *)
(* map is a function from the tag names it holds to their values.          *)
(***************************************************************************)
Undefined == "<undefined>"

LIFE_CYCLE_OBSERVER == "lifeCycleObserver"
LIFE_CYCLE_OBSERVER_GROUP == "lifeCycleObserverGroup"
MIDDLEWARE == "middleware"

\* binding.tagMap[t]
TagOf(binding, t) ==
    IF t \in DOMAIN binding.tagMap THEN binding.tagMap[t] ELSE Undefined

\* JavaScript truthiness of a tag value
Truthy(v) == v # Undefined /\ v # ""

KeyPool == <<"A", "B", "C", "D", "E">>

\* asLifeCycleObserver + asMiddlewareBinding({phase}) on a singleton class binding
Tagged(g) ==
    (LIFE_CYCLE_OBSERVER :> LIFE_CYCLE_OBSERVER) @@ (MIDDLEWARE :> MIDDLEWARE)
        @@ (LIFE_CYCLE_OBSERVER_GROUP :> g) @@ ("phase" :> g)

Untagged ==
    (LIFE_CYCLE_OBSERVER :> LIFE_CYCLE_OBSERVER) @@ (MIDDLEWARE :> MIDDLEWARE)

\* a binding tagged with the literal name of its group, e.g. binding.tag('server')
Marked(g) == Untagged @@ (g :> g)

TagMaps ==
    {Untagged, Marked("server")} \cup {Tagged(g) : g \in {"a", "b", "db", "server"}}

OrderNames == {"a", "db", "server", "x"}

SeqsUpTo(S, n) == UNION {[1..k -> S] : k \in 0..n}

RECURSIVE IndexFrom(_, _, _)
\* the 0-based index of the first x at or after position i (1-based), -1 if none
IndexFrom(arr, x, i) ==
    IF i > Len(arr) THEN -1
    ELSE IF arr[i] = x THEN i - 1
    ELSE IndexFrom(arr, x, i + 1)

\* Array.prototype.indexOf
indexOf(arr, x) == IndexFrom(arr, x, 1)

Reverse(arr) == [i \in 1..Len(arr) |-> arr[Len(arr) + 1 - i]]

Range(arr) == {arr[i] : i \in 1..Len(arr)}

(***************************************************************************)
(* Array.prototype.sort with a comparator: elements are inserted one by    *)
(* one, each moved left past the elements the comparator ranks after it.   *)
(* The comparator is given as the function cmp[<<a, b>>] on the elements.  *)
(***************************************************************************)
ArraySort(arr, cmp) ==
    LET RECURSIVE InsertSorted(_, _)
        InsertSorted(sorted, x) ==
            IF sorted = <<>> THEN <<x>>
            ELSE LET last == sorted[Len(sorted)]
                 IN  IF cmp[<<last, x>>] > 0
                     THEN InsertSorted(SubSeq(sorted, 1, Len(sorted) - 1), x) \o <<last>>
                     ELSE sorted \o <<x>>
        RECURSIVE SortFrom(_, _)
        SortFrom(sorted, rest) ==
            IF rest = <<>> THEN sorted
            ELSE SortFrom(InsertSorted(sorted, Head(rest)), Tail(rest))
    IN  SortFrom(<<>>, arr)

(***************************************************************************)
(* State.                                                                  *)
(***************************************************************************)
VARIABLES
    ctx,              \* the Context: its bindings, in registration order
    options,          \* LifeCycleObserverRegistry.options
    mwOptions,        \* MiddlewareRegistry.options
    observerGroups,   \* what getObserverGroupsByOrder() last returned
    middlewarePhases, \* what getMiddlewarePhasesByOrder() last returned
    observerGroup,    \* what getObserverGroup() last returned and for which binding
                      \* (a sequence of at most one record)
    router,           \* the latest createExpressRouter() call: its locals, the
                      \* router it has assembled so far and its outcome
    built,            \* history: the routers returned so far, each with the
                      \* bindings and the phasesByOrder its call found
    call,             \* the latest start()/stop() call: its locals and its outcome
    notifiers,        \* the notifyObserver invocations of the latest call that have
                      \* not settled (nothing awaits or reads those of earlier calls)
    hist,             \* history of the latest call: what it notified, began, settled
    seen,             \* history: the context and options when the latest call began
    prev,             \* history: for a stop(), the start() that resolved just before
                      \* it, if any (a sequence of at most one record)
    changes,          \* number of changes since the latest call began
    orderSet          \* history: the arguments setGroupsByOrder and setPhasesByOrder
                      \* were last called with since the latest call began

routeVars == <<router, built>>
sortVars == <<observerGroups, middlewarePhases, observerGroup, routeVars>>
lifeVars == <<call, notifiers, hist, seen, prev, changes, orderSet>>
vars == <<ctx, options, mwOptions, sortVars, lifeVars>>

None == "<none>"

(***************************************************************************)
(* LifeCycleObserverRegistry: discovery, classification and sorting.       *)
(***************************************************************************)
IsObserverBinding(binding) ==
    /\ (binding.type = "CONSTANT" \/ binding.scope = "SINGLETON")
    /\ TagOf(binding, LIFE_CYCLE_OBSERVER) # Undefined

findObserverBindings(context) == SelectSeq(context, IsObserverBinding)

\* Array.prototype.find over groupsByOrder: the first g with tagMap[g] === g
FindMatchingGroup(binding, groupsByOrder) ==
    LET hits == SelectSeq(groupsByOrder, LAMBDA g : TagOf(binding, g) = g)
    IN  IF hits = <<>> THEN Undefined ELSE Head(hits)

getObserverGroup(binding, groupsByOrder) ==
    LET explicit == TagOf(binding, LIFE_CYCLE_OBSERVER_GROUP)
        group    == IF Truthy(explicit) THEN explicit
                    ELSE FindMatchingGroup(binding, groupsByOrder)
    IN  IF Truthy(group) THEN group ELSE ""

RECURSIVE GroupNamesOf(_, _)
\* the keys of groupMap, in insertion order
GroupNamesOf(bindings, groupsByOrder) ==
    IF bindings = <<>> THEN <<>>
    ELSE LET front == GroupNamesOf(SubSeq(bindings, 1, Len(bindings) - 1), groupsByOrder)
             group == getObserverGroup(bindings[Len(bindings)], groupsByOrder)
         IN  IF group \in Range(front) THEN front ELSE Append(front, group)

\* groupMap read into one entry per binding instead of one per group
ObserverGroupEntriesPerBinding(bindings, groupsByOrder) ==
    [i \in 1..Len(bindings) |->
        [group    |-> getObserverGroup(bindings[i], groupsByOrder),
         bindings |-> SelectSeq(bindings,
             LAMBDA b : getObserverGroup(b, groupsByOrder)
                            = getObserverGroup(bindings[i], groupsByOrder))]]

\* groupMap.set(group, [binding]) for every binding: a group keeps its last only
ObserverGroupEntriesLastOnly(bindings, groupsByOrder) ==
    LET names == GroupNamesOf(bindings, groupsByOrder)
    IN  [i \in 1..Len(names) |->
            [group    |-> names[i],
             bindings |->
                 LET of == SelectSeq(bindings,
                               LAMBDA b : getObserverGroup(b, groupsByOrder) = names[i])
                 IN  <<of[Len(of)]>>]]

\* the entries of groupMap: one {group, bindings} per name, bindings in input order
ObserverGroupEntries(bindings, groupsByOrder) ==
    LET names == GroupNamesOf(bindings, groupsByOrder)
    IN  [i \in 1..Len(names) |->
            [group    |-> names[i],
             bindings |-> SelectSeq(bindings,
                 LAMBDA b : getObserverGroup(b, groupsByOrder) = names[i])]]

\* CompareGroups ranking a name that is not in the list after every listed name
CompareGroupsAbsentLast(g1, g2, groupsByOrder) ==
    LET at(g) == IF indexOf(groupsByOrder, g.group) = -1
                 THEN Len(groupsByOrder) ELSE indexOf(groupsByOrder, g.group)
    IN  IF at(g1) # at(g2)
        THEN at(g1) - at(g2)
        ELSE IF StrLess(g1.group, g2.group) THEN -1
             ELSE IF StrLess(g2.group, g1.group) THEN 1 ELSE 0

\* CompareGroups without the alphabetical branch
CompareGroupsNoAlpha(g1, g2, groupsByOrder) ==
    LET i1 == indexOf(groupsByOrder, g1.group)
        i2 == indexOf(groupsByOrder, g2.group)
    IN  IF i1 # -1 \/ i2 # -1 THEN i1 - i2 ELSE 0

\* the comparator of sortObserverBindingsByGroup
CompareGroups(g1, g2, groupsByOrder) ==
    LET i1 == indexOf(groupsByOrder, g1.group)
        i2 == indexOf(groupsByOrder, g2.group)
    IN  IF i1 # -1 \/ i2 # -1
        THEN i1 - i2
        ELSE IF StrLess(g1.group, g2.group) THEN -1
             ELSE IF StrLess(g2.group, g1.group) THEN 1 ELSE 0

sortObserverBindingsByGroup(bindings, groupsByOrder) ==
    LET groups == ObserverGroupEntries(bindings, groupsByOrder)
    IN  ArraySort(groups,
            [p \in Range(groups) \X Range(groups) |->
                CompareGroups(p[1], p[2], groupsByOrder)])

\* getObserverGroupsByOrder keeping the groups it computed for the call before
getObserverGroupsCached(context, groupsByOrder) ==
    IF call.id = 0
    THEN sortObserverBindingsByGroup(findObserverBindings(context), groupsByOrder)
    ELSE IF call.kind = "stop" THEN Reverse(call.groups) ELSE call.groups

getObserverGroupsByOrder(context, groupsByOrder) ==
    sortObserverBindingsByGroup(findObserverBindings(context), groupsByOrder)

(***************************************************************************)
(* MiddlewareRegistry: discovery, classification and sorting.              *)
(***************************************************************************)
\* middlewareView.bindings: the bindings matching filterByTag('middleware')
middlewareFilter(binding) == TagOf(binding, MIDDLEWARE) # Undefined

MiddlewareViewBindings(context) == SelectSeq(context, middlewareFilter)

getMiddlewarePhase(binding) ==
    LET phase == TagOf(binding, "phase")
    IN  IF Truthy(phase) THEN phase ELSE ""

RECURSIVE PhaseNamesOf(_)
PhaseNamesOf(bindings) ==
    IF bindings = <<>> THEN <<>>
    ELSE LET front == PhaseNamesOf(SubSeq(bindings, 1, Len(bindings) - 1))
             phase == getMiddlewarePhase(bindings[Len(bindings)])
         IN  IF phase \in Range(front) THEN front ELSE Append(front, phase)

MiddlewarePhaseEntries(bindings) ==
    LET names == PhaseNamesOf(bindings)
    IN  [i \in 1..Len(names) |->
            [phase    |-> names[i],
             bindings |-> SelectSeq(bindings,
                 LAMBDA b : getMiddlewarePhase(b) = names[i])]]

\* the comparator of sortMiddlewareBindingsByPhase
ComparePhases(p1, p2, phasesByOrder) ==
    LET i1 == indexOf(phasesByOrder, p1.phase)
        i2 == indexOf(phasesByOrder, p2.phase)
    IN  IF i1 # -1 \/ i2 # -1
        THEN i1 - i2
        ELSE IF StrLess(p1.phase, p2.phase) THEN -1
             ELSE IF StrLess(p2.phase, p1.phase) THEN 1 ELSE 0

sortMiddlewareBindingsByPhase(bindings, phasesByOrder) ==
    LET phases == MiddlewarePhaseEntries(bindings)
    IN  ArraySort(phases,
            [p \in Range(phases) \X Range(phases) |->
                ComparePhases(p[1], p[2], phasesByOrder)])

getMiddlewarePhasesByOrder(context, phasesByOrder) ==
    sortMiddlewareBindingsByPhase(MiddlewareViewBindings(context), phasesByOrder)

(***************************************************************************)
(* The state of the registries before any call.                            *)
(***************************************************************************)
NoCall ==
    [id |-> 0, kind |-> None, events |-> <<>>, groups |-> <<>>,
     ei |-> 0, gi |-> 0, mi |-> 0, status |-> "idle", error |-> None]

NoHist ==
    [notified |-> <<>>, began |-> <<>>, settled |-> {}, failed |-> <<>>,
     resolved |-> {}, invoked |-> EmptyBag]

NoOrderSet == [groups |-> <<>>, phases |-> <<>>]

\* createExpressRouter() not called yet
NoRouter ==
    [id |-> 0, status |-> "idle", phases |-> <<>>, resolving |-> <<>>,
     seen |-> [bindings |-> <<>>, phasesByOrder |-> <<>>],
     pipeline |-> <<>>, error |-> None]

LifeInit ==
    /\ router = NoRouter
    /\ built = <<>>
    /\ call = NoCall
    /\ notifiers = {}
    /\ hist = NoHist
    /\ seen = None
    /\ prev = <<>>
    /\ changes = 0
    /\ orderSet = NoOrderSet

(***************************************************************************)
(* SortSpec: the contexts and orderings of the bounds, and the two         *)
(* registries computing their ordered groups from them.                    *)
(***************************************************************************)
\* the bindings a context of n singleton bindings can hold
Contexts(n) ==
    {[i \in 1..n |-> [key |-> KeyPool[i], type |-> "CLASS", scope |-> "SINGLETON",
                      tagMap |-> tags[i]]] :
        tags \in [1..n -> TagMaps]}

SortInit ==
    /\ ctx \in UNION {Contexts(k) : k \in 0..MaxBindings}
    /\ \E order \in SeqsUpTo(OrderNames, MaxOrder) :
           /\ options = [groupsByOrder |-> order, parallel |-> TRUE]
           /\ mwOptions = [phasesByOrder |-> order, parallel |-> FALSE]
    /\ observerGroups = None
    /\ middlewarePhases = None
    /\ observerGroup = <<>>
    /\ LifeInit

GetObserverGroupsByOrder ==
    /\ observerGroups = None
    /\ observerGroups' = getObserverGroupsByOrder(ctx, options.groupsByOrder)
    /\ UNCHANGED <<ctx, options, mwOptions, middlewarePhases, observerGroup, routeVars, lifeVars>>

GetMiddlewarePhasesByOrder ==
    /\ middlewarePhases = None
    /\ middlewarePhases' = getMiddlewarePhasesByOrder(ctx, mwOptions.phasesByOrder)
    /\ UNCHANGED <<ctx, options, mwOptions, observerGroups, observerGroup, routeVars, lifeVars>>

SortNext == GetObserverGroupsByOrder \/ GetMiddlewarePhasesByOrder

SortSpec == SortInit /\ [][SortNext]_vars

(***************************************************************************)
(* GroupSpec: one binding with any of the tags getObserverGroup reads, an  *)
(* ordering, and the registry classifying the binding.                     *)
(***************************************************************************)
\* the tag map of an observer binding with the given values of its tags
\* lifeCycleObserverGroup, db and server (Undefined: the tag is not set)
TagMapOf(explicit, db, server) ==
    LET vals == (LIFE_CYCLE_OBSERVER_GROUP :> explicit) @@ ("db" :> db)
                    @@ ("server" :> server)
        set  == {t \in DOMAIN vals : vals[t] # Undefined}
    IN  [t \in DOMAIN Untagged \cup set |->
            IF t \in set THEN vals[t] ELSE Untagged[t]]

GroupTagMaps ==
    {TagMapOf(explicit, db, server) :
        explicit \in {Undefined, "", "db", "x"},
        db \in {Undefined, "db", "x"},
        server \in {Undefined, "server"}}

GroupInit ==
    /\ \E tags \in GroupTagMaps :
           ctx = <<[key |-> KeyPool[1], type |-> "CLASS", scope |-> "SINGLETON",
                    tagMap |-> tags]>>
    /\ \E order \in SeqsUpTo(OrderNames, MaxOrder) :
           options = [groupsByOrder |-> order, parallel |-> TRUE]
    /\ mwOptions = [parallel |-> FALSE, phasesByOrder |-> <<>>]
    /\ observerGroups = None
    /\ middlewarePhases = None
    /\ observerGroup = <<>>
    /\ LifeInit

GetObserverGroup ==
    /\ observerGroup = <<>>
    /\ \E i \in 1..Len(ctx) :
           observerGroup' =
               <<[binding |-> ctx[i],
                  group   |-> getObserverGroup(ctx[i], options.groupsByOrder)]>>
    /\ UNCHANGED <<ctx, options, mwOptions, observerGroups, middlewarePhases, routeVars, lifeVars>>

GroupNext == GetObserverGroup

GroupSpec == GroupInit /\ [][GroupNext]_vars

(***************************************************************************)
(* LifeCycleObserverRegistry: start(), stop() and the notifications.       *)
(***************************************************************************)
StartEvents == <<"preStart", "start", "postStart">>
StopEvents == <<"preStop", "stop", "postStop">>

\* The observers the keys are bound to, each given by the events it has a
\* function for (every method of LifeCycleObserver is optional): one with
\* all six, one with start and stop only, one with none.
ObserverOf(key) ==
    CASE key \in {"A", "E"} -> Range(StartEvents) \cup Range(StopEvents)
      [] key \in {"B", "D"} -> {"start", "stop"}
      [] key = "C"          -> {}

\* if (this.options.parallel): an option that was left out reads as undefined
Parallel(opts) == IF "parallel" \in DOMAIN opts THEN opts.parallel = TRUE ELSE FALSE

\* stop() walking the groups in the order of start()
StopGroupsForward(groups) == groups

\* stop() reversing the members of every group as well
StopGroupsDeep(groups) ==
    Reverse([i \in 1..Len(groups) |->
        [groups[i] EXCEPT !.bindings = Reverse(@)]])

\* the groups stop() walks: getObserverGroupsByOrder().reverse()
StopGroups(groups) == Reverse(groups)

\* notifyObserverGroup never awaiting inside its loop
MembersBegunAll(group, parallel) == Len(group.bindings)

\* how many members of a group have notifyObserver called before the loop of
\* notifyObserverGroup first suspends: all of them when the promises are only
\* collected, one when the loop awaits each
MembersBegun(group, parallel) ==
    IF parallel THEN Len(group.bindings) ELSE 1

\* notifyObserverGroup returning without awaiting the promises it collected
PromiseAllSkipped(pending) == TRUE

\* await Promise.all(notifiers) never resuming
PromiseAllNever(pending) == FALSE

\* await Promise.all(notifiers): resumes once none of the promises is pending
PromiseAllFulfilled(pending) == pending = {}

\* notifyGroups with its loops exchanged: every event of a group, then the next group
NextPositionByGroup(ei, gi, nEvents, nGroups) ==
    IF ei < nEvents THEN <<ei + 1, gi>>
    ELSE IF gi < nGroups THEN <<1, gi + 1>>
    ELSE None

\* the loops of notifyGroups: the position after group gi of event ei
NextPosition(ei, gi, nEvents, nGroups) ==
    IF gi < nGroups THEN <<ei, gi + 1>>
    ELSE IF ei < nEvents THEN <<ei + 1, 1>>
    ELSE None

\* the error of a notification caught and dropped
RejectedSwallowed(c, err) == c

\* start()/stop() rejecting with the error of a notification
Rejected(c, err) == [c EXCEPT !.status = "rejected", !.error = err]

Entry(event, group, i) ==
    [event |-> event, group |-> group.group, key |-> group.bindings[i].key]

EntryOf(t) == [event |-> t.event, group |-> t.group, key |-> t.key]

\* notifyObserver(b) called: ctx.get(binding.key) is pending
Notifier(event, group, i) ==
    [event |-> event, group |-> group.group,
     key |-> group.bindings[i].key, stage |-> "get"]

\* notifyObserverGroup(groups[gi], events[ei]) up to its first suspension
NotifyObserverGroup(c, ei, gi, rest, h) ==
    LET group == c.groups[gi]
        event == c.events[ei]
        n     == MembersBegun(group, Parallel(options))
    IN  /\ call' = [c EXCEPT !.ei = ei, !.gi = gi, !.mi = n]
        /\ notifiers' = rest \cup {Notifier(event, group, i) : i \in 1..n}
        /\ hist' = [h EXCEPT
               !.notified = Append(@, <<event, group.group>>),
               !.began = @ \o [i \in 1..n |-> Entry(event, group, i)]]

\* notifyGroups resuming after notifyObserverGroup has returned
NotifyGroupsResume(c, rest, h) ==
    LET next == NextPosition(c.ei, c.gi, Len(c.events), Len(c.groups))
    IN  IF next = None
        THEN /\ call' = [c EXCEPT !.status = "resolved"]
             /\ notifiers' = rest
             /\ hist' = h
        ELSE NotifyObserverGroup(c, next[1], next[2], rest, h)

\* the loop of notifyObserverGroup resuming after `await notifyObserver(b)`
NotifyNextMember(c, rest, h) ==
    LET group == c.groups[c.gi]
        event == c.events[c.ei]
    IN  IF c.mi < Len(group.bindings)
        THEN /\ call' = [c EXCEPT !.mi = c.mi + 1]
             /\ notifiers' = rest \cup {Notifier(event, group, c.mi + 1)}
             /\ hist' = [h EXCEPT !.began = Append(@, Entry(event, group, c.mi + 1))]
        ELSE NotifyGroupsResume(c, rest, h)

\* a call of start() or stop(), up to its first suspension
Call(kind) ==
    /\ call.status # "running"
    /\ call.id < MaxCalls
    /\ LET sorted == getObserverGroupsByOrder(ctx, options.groupsByOrder)
           c == [id     |-> call.id + 1,
                 kind   |-> kind,
                 events |-> IF kind = "start" THEN StartEvents ELSE StopEvents,
                 groups |-> IF kind = "start" THEN sorted ELSE StopGroups(sorted),
                 ei |-> 0, gi |-> 0, mi |-> 0,
                 status |-> "running", error |-> None]
       IN  IF c.groups = <<>>
           THEN /\ call' = [c EXCEPT !.status = "resolved"]
                /\ notifiers' = {}
                /\ hist' = NoHist
           ELSE NotifyObserverGroup(c, 1, 1, {}, NoHist)
    /\ seen' = [ctx |-> ctx, options |-> options]
    /\ prev' = IF kind = "stop" /\ call.kind = "start" /\ call.status = "resolved"
               THEN <<[seen |-> seen, notified |-> hist.notified]>>
               ELSE <<>>
    /\ changes' = 0
    /\ orderSet' = NoOrderSet
    /\ UNCHANGED <<ctx, options, mwOptions, sortVars>>

Start == Call("start")

Stop == Call("stop")

\* a notifyObserver invocation fulfils (h0: the history up to this step)
Fulfil(t, h0) ==
    LET rest == notifiers \ {t}
        h    == [h0 EXCEPT !.settled = @ \cup {EntryOf(t)}]
    IN  IF call.status = "running"
        THEN IF Parallel(options)
             THEN IF PromiseAllFulfilled(rest)
                  THEN NotifyGroupsResume(call, rest, h)
                  ELSE /\ notifiers' = rest
                       /\ hist' = h
                       /\ call' = call
             ELSE NotifyNextMember(call, rest, h)
        ELSE /\ notifiers' = rest
             /\ hist' = h
             /\ call' = call

\* a notifyObserver invocation rejects
Reject(t) ==
    /\ notifiers' = notifiers \ {t}
    /\ hist' = [hist EXCEPT !.settled = @ \cup {EntryOf(t)},
                            !.failed = Append(@, EntryOf(t))]
    /\ call' = IF call.status = "running"
               THEN Rejected(call, EntryOf(t))
               ELSE call

\* invokeObserver calling observer[event] without looking at its type
HasMethodAlways(observer, event) == TRUE

\* typeof observer[event] === 'function'
HasMethod(observer, event) == event \in observer

\* ctx.get(binding.key) resolves to the observer the key is bound to;
\* invokeObserver calls its method for the event when it has one
ObserverResolved ==
    \E t \in notifiers :
        /\ t.stage = "get"
        /\ \E i \in 1..Len(ctx) :
               /\ ctx[i].key = t.key
               /\ LET observer == ctx[i].value
                      h == [hist EXCEPT !.resolved = @ \cup {EntryOf(t)}]
                  IN  IF HasMethod(observer, t.event)
                      THEN /\ notifiers' =
                                  (notifiers \ {t}) \cup {[t EXCEPT !.stage = "invoke"]}
                           /\ hist' = [h EXCEPT
                                  !.invoked = @ (+) SetToBag({EntryOf(t)})]
                           /\ call' = call
                      ELSE Fulfil(t, h)
        /\ UNCHANGED <<ctx, options, mwOptions, sortVars, seen, prev, changes, orderSet>>

\* ctx.get(binding.key) fails
ResolutionFails ==
    \E t \in notifiers :
        /\ t.stage = "get"
        /\ Reject(t)
        /\ UNCHANGED <<ctx, options, mwOptions, sortVars, seen, prev, changes, orderSet>>

\* the observer's method for the event returns
MethodReturns ==
    \E t \in notifiers :
        /\ t.stage = "invoke"
        /\ Fulfil(t, hist)
        /\ UNCHANGED <<ctx, options, mwOptions, sortVars, seen, prev, changes, orderSet>>

\* the observer's method for the event throws or rejects
MethodFails ==
    \E t \in notifiers :
        /\ t.stage = "invoke"
        /\ Reject(t)
        /\ UNCHANGED <<ctx, options, mwOptions, sortVars, seen, prev, changes, orderSet>>

(***************************************************************************)
(* The application changing the context and the options between calls.     *)
(***************************************************************************)
MayChange ==
    /\ call.status \in {"resolved", "rejected"}
    /\ call.id < MaxCalls
    /\ changes < MaxChanges

FreeKeys == {KeyPool[i] : i \in 1..Len(KeyPool)} \ {ctx[i].key : i \in 1..Len(ctx)}

FirstFreeKey == KeyPool[CHOOSE i \in 1..Len(KeyPool) :
                    /\ KeyPool[i] \in FreeKeys
                    /\ \A j \in 1..(i - 1) : KeyPool[j] \notin FreeKeys]

LifeTagMaps == {Untagged, Tagged("db"), Tagged("server")}

\* ctx.bind(key).toClass(..).inScope(scope).tag(..)
Bind ==
    /\ MayChange
    /\ Len(ctx) < MaxBindings
    /\ \E tags \in LifeTagMaps, scope \in {"SINGLETON", "TRANSIENT"} :
           ctx' = Append(ctx, [key |-> FirstFreeKey, type |-> "CLASS",
                               scope |-> scope, tagMap |-> tags,
                               value |-> ObserverOf(FirstFreeKey)])
    /\ changes' = changes + 1
    /\ UNCHANGED <<options, mwOptions, sortVars, call, notifiers, hist, seen, prev, orderSet>>

\* ctx.unbind(key)
Unbind ==
    /\ MayChange
    /\ \E i \in 1..Len(ctx) :
           ctx' = SubSeq(ctx, 1, i - 1) \o SubSeq(ctx, i + 1, Len(ctx))
    /\ changes' = changes + 1
    /\ UNCHANGED <<options, mwOptions, sortVars, call, notifiers, hist, seen, prev, orderSet>>

\* binding.tag({lifeCycleObserverGroup: g})
TagGroup ==
    /\ MayChange
    /\ \E i \in 1..Len(ctx), g \in {"db", "server"} :
           /\ TagOf(ctx[i], LIFE_CYCLE_OBSERVER_GROUP) # g
           /\ ctx' = [ctx EXCEPT ![i].tagMap = (LIFE_CYCLE_OBSERVER_GROUP :> g) @@ @]
    /\ changes' = changes + 1
    /\ UNCHANGED <<options, mwOptions, sortVars, call, notifiers, hist, seen, prev, orderSet>>

\* a registry is configured before its first use or between two calls
MayConfigure ==
    \/ MayChange
    \/ /\ call.id = 0
       /\ changes < MaxChanges
       /\ observerGroups = None
       /\ middlewarePhases = None

\* the arguments setGroupsByOrder is called with: an array, or null / undefined
GroupsArguments ==
    {[given |-> FALSE, value |-> <<>>]}
        \cup {[given |-> TRUE, value |-> g] : g \in {<<>>, <<"db", "server">>}}

\* setGroupsByOrder taking the empty list for a missing argument
setGroupsByOrderOrEmpty(opts, groups) ==
    [opts EXCEPT !.groupsByOrder = IF groups.given THEN groups.value ELSE <<>>]

\* groups || ['server']: an array, even an empty one, is truthy
setGroupsByOrder(opts, groups) ==
    [opts EXCEPT !.groupsByOrder = IF groups.given THEN groups.value ELSE <<"server">>]

SetGroupsByOrder ==
    /\ MayConfigure
    /\ \E groups \in GroupsArguments :
           /\ options' = setGroupsByOrder(options, groups)
           /\ options' # options
           /\ orderSet' = [orderSet EXCEPT !.groups = <<groups>>]
    /\ changes' = changes + 1
    /\ UNCHANGED <<ctx, mwOptions, sortVars, call, notifiers, hist, seen, prev>>

\* the arguments setPhasesByOrder is called with: an array, or null / undefined
PhasesArguments ==
    {[given |-> FALSE, value |-> <<>>]}
        \cup {[given |-> TRUE, value |-> p] : p \in {<<>>, <<"db", "server">>}}

\* phases || []
setPhasesByOrder(opts, phases) ==
    [opts EXCEPT !.phasesByOrder = IF phases.given THEN phases.value ELSE <<>>]

SetPhasesByOrder ==
    /\ MayConfigure
    /\ \E phases \in PhasesArguments :
           /\ mwOptions' = setPhasesByOrder(mwOptions, phases)
           /\ mwOptions' # mwOptions
           /\ orderSet' = [orderSet EXCEPT !.phases = <<phases>>]
    /\ changes' = changes + 1
    /\ UNCHANGED <<ctx, options, sortVars, call, notifiers, hist, seen, prev>>

(***************************************************************************)
(* OrderSpec: registries constructed with the default or with injected     *)
(* options, configured with setGroupsByOrder / setPhasesByOrder and then   *)
(* computing their ordered groups.                                         *)
(***************************************************************************)
DefaultMiddlewareOptions == [parallel |-> FALSE, phasesByOrder |-> <<>>]

OrderTagMaps == {Untagged, Tagged("a"), Tagged("server"), Tagged("x")}

OrderContexts(n) ==
    {[i \in 1..n |-> [key |-> KeyPool[i], type |-> "CLASS", scope |-> "SINGLETON",
                      tagMap |-> tags[i]]] :
        tags \in [1..n -> OrderTagMaps]}

OrderInit ==
    /\ ctx \in UNION {OrderContexts(k) : k \in 0..MaxBindings}
    /\ options \in {[parallel |-> TRUE, groupsByOrder |-> <<"server">>],
                    [parallel |-> TRUE, groupsByOrder |-> <<"x", "a">>]}
    /\ mwOptions \in {DefaultMiddlewareOptions,
                      [parallel |-> FALSE, phasesByOrder |-> <<"x", "a">>]}
    /\ observerGroups = None
    /\ middlewarePhases = None
    /\ observerGroup = <<>>
    /\ LifeInit

OrderNext ==
    \/ SetGroupsByOrder
    \/ SetPhasesByOrder
    \/ GetObserverGroupsByOrder
    \/ GetMiddlewarePhasesByOrder

OrderSpec == OrderInit /\ [][OrderNext]_vars

(***************************************************************************)
(* Spec: a registry constructed on a context, with the default options or  *)
(* with injected ones, its calls and the notifications they await.         *)
(***************************************************************************)
DefaultOptions == [parallel |-> TRUE, groupsByOrder |-> <<"server">>]

LifeContexts(n) ==
    {[i \in 1..n |-> [key |-> KeyPool[i], type |-> "CLASS", scope |-> "SINGLETON",
                      tagMap |-> tags[i], value |-> ObserverOf(KeyPool[i])]] :
        tags \in [1..n -> LifeTagMaps]}

Init ==
    /\ ctx \in UNION {LifeContexts(k) : k \in 0..MaxBindings}
    /\ options \in {DefaultOptions,
                    [parallel |-> FALSE, groupsByOrder |-> <<"server">>],
                    [parallel |-> TRUE, groupsByOrder |-> <<"db", "server">>],
                    [parallel |-> FALSE, groupsByOrder |-> <<"db", "server">>],
                    [groupsByOrder |-> <<"server">>]}
    /\ mwOptions = [parallel |-> FALSE, phasesByOrder |-> <<>>]
    /\ observerGroups = None
    /\ middlewarePhases = None
    /\ observerGroup = <<>>
    /\ LifeInit

Next ==
    \/ Start
    \/ Stop
    \/ ObserverResolved
    \/ ResolutionFails
    \/ MethodReturns
    \/ MethodFails
    \/ Bind
    \/ Unbind
    \/ TagGroup
    \/ SetGroupsByOrder

Spec == Init /\ [][Next]_vars

(***************************************************************************)
(* LiveSpec: the calls of a registry whose context and options stay as     *)
(* constructed, every pending ctx.get and every pending observer method    *)
(* settling eventually.  The caller is under no obligation to call.        *)
(***************************************************************************)
Resolution == ObserverResolved \/ ResolutionFails

Invocation == MethodReturns \/ MethodFails

LiveNext ==
    \/ Start
    \/ Stop
    \/ ObserverResolved
    \/ ResolutionFails
    \/ MethodReturns
    \/ MethodFails

LiveSpec ==
    /\ Init
    /\ [][LiveNext]_vars
    /\ WF_vars(Resolution)
    /\ WF_vars(Invocation)

(***************************************************************************)
(* MiddlewareRegistry: createExpressRouter().                              *)
(*                                                                         *)
(* The call sorts the bindings of the view into phases, asks the view for  *)
(* their values and is suspended until these are resolved; it then reads   *)
(* the bindings of the view again and mounts, phase by phase, for every    *)
(* binding of the phases the value at the binding's index among them.      *)
(***************************************************************************)
\* the handler a middleware binding of the key resolves to
HandlerOf(key) ==
    CASE key = "A" -> "handlerA"
      [] key = "B" -> "handlerB"
      [] key = "C" -> "handlerC"
      [] key = "D" -> "handlerD"
      [] key = "E" -> "handlerE"

\* the tags asMiddlewareBinding(spec) sets: middleware, and phase and path
\* when the spec has them (Undefined: the spec has none)
asMiddlewareBinding(phase, path) ==
    LET spec == ("phase" :> phase) @@ ("path" :> path)
        set  == {t \in DOMAIN spec : spec[t] # Undefined}
    IN  [t \in {MIDDLEWARE} \cup set |-> IF t \in set THEN spec[t] ELSE MIDDLEWARE]

MiddlewareTagMaps ==
    {asMiddlewareBinding("auth", "/api"), asMiddlewareBinding("auth", Undefined),
     asMiddlewareBinding("log", Undefined), asMiddlewareBinding(Undefined, Undefined)}

MiddlewareBinding(key, tags) ==
    [key |-> key, type |-> "CONSTANT", scope |-> "SINGLETON", tagMap |-> tags,
     value |-> HandlerOf(key)]

MiddlewareContexts(n) ==
    {[i \in 1..n |-> MiddlewareBinding(KeyPool[i], tags[i])] :
        tags \in [1..n -> MiddlewareTagMaps]}

\* middlewareView.values(): the values of the bindings of the view
ViewValues(bindings) == [i \in 1..Len(bindings) |-> bindings[i].value]

\* middleware[index]: undefined outside the array
At(middleware, index) ==
    IF index >= 0 /\ index < Len(middleware) THEN middleware[index + 1] ELSE Undefined

\* phaseRouter.use(middleware[index]) for every binding, whatever its path
MountOfUnscoped(binding, bindings, middleware) ==
    [key     |-> binding.key,
     path    |-> Undefined,
     handler |-> At(middleware, indexOf(bindings, binding))]

\* what the loop body mounts for a binding of a phase:
\* phaseRouter.use(binding.tagMap.path, middleware[index]) or
\* phaseRouter.use(middleware[index])
MountOf(binding, bindings, middleware) ==
    [key     |-> binding.key,
     path    |-> IF Truthy(TagOf(binding, "path")) THEN TagOf(binding, "path")
                 ELSE Undefined,
     handler |-> At(middleware, indexOf(bindings, binding))]

\* Router.use throws a TypeError when it is not given a function
UseThrows(mount) == mount.handler = Undefined

\* the phases recomputed from the view after the values have been resolved
PhasesToMountLive(phases, context, phasesByOrder) ==
    getMiddlewarePhasesByOrder(context, phasesByOrder)

\* for (const phase of phases): the phases computed when the call was made
PhasesToMount(phases, context, phasesByOrder) == phases

\* the mounts of the bindings of a phase, in the order of the phase
PhaseMounts(phase, bindings, middleware) ==
    [i \in 1..Len(phase.bindings) |-> MountOf(phase.bindings[i], bindings, middleware)]

\* the number of mounts made before the first that throws
MountsMade(mounts) ==
    LET throwing == {i \in 1..Len(mounts) : UseThrows(mounts[i])}
    IN  IF throwing = {} THEN Len(mounts)
        ELSE (CHOOSE i \in throwing : \A j \in throwing : i <= j) - 1

RECURSIVE MountPhases(_, _, _)
\* the loops of createExpressRouter: a phase router per phase, added to the
\* root router before the bindings of the phase are mounted on it; the loops
\* end at the first use() that throws
MountPhases(phases, bindings, middleware) ==
    IF phases = <<>> THEN [pipeline |-> <<>>, threw |-> FALSE]
    ELSE LET phase  == Head(phases)
             mounts == PhaseMounts(phase, bindings, middleware)
             made   == MountsMade(mounts)
             rest   == MountPhases(Tail(phases), bindings, middleware)
         IN  IF made < Len(mounts)
             THEN [pipeline |-> <<[phase  |-> phase.phase,
                                   mounts |-> SubSeq(mounts, 1, made)]>>,
                   threw    |-> TRUE]
             ELSE [pipeline |-> <<[phase |-> phase.phase, mounts |-> mounts]>>
                                    \o rest.pipeline,
                   threw    |-> rest.threw]

\* createExpressRouter() up to `await this.middlewareView.values()`
CreateExpressRouter ==
    /\ router.status # "resolving"
    /\ router.id < MaxCalls
    /\ LET bindings == MiddlewareViewBindings(ctx)
       IN  router' =
               [id        |-> router.id + 1,
                status    |-> "resolving",
                phases    |-> getMiddlewarePhasesByOrder(ctx, mwOptions.phasesByOrder),
                resolving |-> bindings,
                seen      |-> [bindings      |-> bindings,
                               phasesByOrder |-> mwOptions.phasesByOrder],
                pipeline  |-> <<>>,
                error     |-> None]
    /\ UNCHANGED <<ctx, options, mwOptions, observerGroups, middlewarePhases,
                   observerGroup, built, lifeVars>>

\* the values are resolved: the rest of createExpressRouter()
ValuesResolved ==
    /\ router.status = "resolving"
    /\ LET middleware == ViewValues(router.resolving)
           bindings   == MiddlewareViewBindings(ctx)
           phases     == PhasesToMount(router.phases, ctx, mwOptions.phasesByOrder)
           result     == MountPhases(phases, bindings, middleware)
       IN  IF result.threw
           THEN /\ router' = [router EXCEPT !.status = "rejected",
                                            !.pipeline = result.pipeline,
                                            !.error = "TypeError"]
                /\ built' = built
           ELSE /\ router' = [router EXCEPT !.status = "resolved",
                                            !.pipeline = result.pipeline]
                /\ built' = Append(built, [seen     |-> router.seen,
                                           pipeline |-> result.pipeline])
    /\ UNCHANGED <<ctx, options, mwOptions, observerGroups, middlewarePhases,
                   observerGroup, lifeVars>>

\* the resolution of a value fails: createExpressRouter() rejects with its error
ValuesRejected ==
    /\ router.status = "resolving"
    /\ router' = [router EXCEPT !.status = "rejected", !.error = "ResolutionError"]
    /\ UNCHANGED <<ctx, options, mwOptions, observerGroups, middlewarePhases,
                   observerGroup, built, lifeVars>>

\* a key no binding has had: not in the context, not in the view of a call
NewKey ==
    LET used == {ctx[i].key : i \in 1..Len(ctx)}
                    \cup {router.resolving[i].key : i \in 1..Len(router.resolving)}
    IN  KeyPool[CHOOSE i \in 1..Len(KeyPool) :
                    /\ KeyPool[i] \notin used
                    /\ \A j \in 1..(i - 1) : KeyPool[j] \in used]

\* ctx.bind(key).to(handler).apply(asMiddlewareBinding(spec)), at any time
BindMiddleware ==
    /\ changes < MaxChanges
    /\ Len(ctx) < MaxBindings
    /\ \E tags \in MiddlewareTagMaps :
           ctx' = Append(ctx, MiddlewareBinding(NewKey, tags))
    /\ changes' = changes + 1
    /\ UNCHANGED <<options, mwOptions, sortVars, call, notifiers, hist, seen, prev,
                   orderSet>>

\* ctx.unbind(key) of a middleware binding, at any time
UnbindMiddleware ==
    /\ changes < MaxChanges
    /\ \E i \in 1..Len(ctx) :
           ctx' = SubSeq(ctx, 1, i - 1) \o SubSeq(ctx, i + 1, Len(ctx))
    /\ changes' = changes + 1
    /\ UNCHANGED <<options, mwOptions, sortVars, call, notifiers, hist, seen, prev,
                   orderSet>>

(***************************************************************************)
(* RouterSpec: a middleware registry on a context of middleware bindings,  *)
(* its createExpressRouter() calls, and the application binding,           *)
(* unbinding and setting the phases at any time, also during a call.       *)
(***************************************************************************)
RouterInit ==
    /\ ctx \in UNION {MiddlewareContexts(k) : k \in 0..MaxBindings}
    /\ options = DefaultOptions
    /\ mwOptions \in {DefaultMiddlewareOptions,
                      [parallel |-> FALSE, phasesByOrder |-> <<"log", "auth">>]}
    /\ observerGroups = None
    /\ middlewarePhases = None
    /\ observerGroup = <<>>
    /\ LifeInit

RouterNext ==
    \/ CreateExpressRouter
    \/ ValuesResolved
    \/ ValuesRejected
    \/ BindMiddleware
    \/ UnbindMiddleware
    \/ SetPhasesByOrder

RouterSpec == RouterInit /\ [][RouterNext]_vars

(***************************************************************************)
(* Properties of the sorted groups.                                        *)
(***************************************************************************)
GroupNames(groups) == [i \in 1..Len(groups) |-> groups[i].group]
PhaseNames(phases) == [i \in 1..Len(phases) |-> phases[i].phase]

\* the groups of the context's observers, in registration order
RegisteredGroups ==
    LET found == findObserverBindings(ctx)
    IN  [i \in 1..Len(found) |-> getObserverGroup(found[i], options.groupsByOrder)]

\* no name that is not in the list stands before a name that is
AbsentLast(names, order) ==
    \A i, j \in 1..Len(names) :
        (i < j /\ names[j] \in Range(order)) => names[i] \in Range(order)

\* no name that is in the list stands before a name that is not
AbsentFirst(names, order) ==
    \A i, j \in 1..Len(names) :
        (i < j /\ names[i] \in Range(order)) => names[j] \in Range(order)

\* C1 as stated: in the groups returned by sortObserverBindingsByGroup and in
\* the phases returned by sortMiddlewareBindingsByPhase, every group whose
\* name is absent from the priority list stands after all the groups whose
\* name is present in it; groups db, server and "" under ["db", "server"]
\* come out as [db, server, ""].
C1_AbsentGroupsLast ==
    /\ observerGroups # None =>
           /\ AbsentLast(GroupNames(observerGroups), options.groupsByOrder)
           /\ (RegisteredGroups = <<"db", "server", "">>
                   /\ options.groupsByOrder = <<"db", "server">>)
               => GroupNames(observerGroups) = <<"db", "server", "">>
    /\ middlewarePhases # None =>
           AbsentLast(PhaseNames(middlewarePhases), mwOptions.phasesByOrder)

\* C1 amended: every group (phase) whose name is absent from the priority
\* list stands before all the groups (phases) whose name is present in it;
\* groups db, server and "" under ["db", "server"] come out as
\* ["", db, server].
C1_AbsentGroupsFirst ==
    /\ observerGroups # None =>
           /\ AbsentFirst(GroupNames(observerGroups), options.groupsByOrder)
           /\ (RegisteredGroups = <<"db", "server", "">>
                   /\ options.groupsByOrder = <<"db", "server">>)
               => GroupNames(observerGroups) = <<"", "db", "server">>
    /\ middlewarePhases # None =>
           AbsentFirst(PhaseNames(middlewarePhases), mwOptions.phasesByOrder)

\* the scenario of C1 has been sorted by both registries
C1_Witness ==
    /\ observerGroups # None
    /\ middlewarePhases # None
    /\ RegisteredGroups = <<"db", "server", "">>
    /\ options.groupsByOrder = <<"db", "server">>
    /\ PhaseNames(middlewarePhases) = <<"", "db", "server">>

\* C2: in the sorted groups, two groups both named in the priority list
\* stand in the order of their names in the list, two groups both absent
\* from it stand in lexicographic order of their names, and every name of
\* the result is the group of a registered observer, so that a listed name
\* without observers never appears; groups b and a under ["x"] come out
\* as [a, b].
C2_ListedByIndexOthersAlphabetical ==
    observerGroups # None =>
        LET names == GroupNames(observerGroups)
            order == options.groupsByOrder
        IN  /\ \A i, j \in 1..Len(names) :
                   i < j =>
                       /\ (names[i] \in Range(order) /\ names[j] \in Range(order))
                              => indexOf(order, names[i]) < indexOf(order, names[j])
                       /\ (names[i] \notin Range(order) /\ names[j] \notin Range(order))
                              => SeqLess(CodeUnits(names[i]), CodeUnits(names[j]))
            /\ Range(names) \subseteq Range(RegisteredGroups)
            /\ (RegisteredGroups = <<"b", "a">> /\ order = <<"x">>)
                   => names = <<"a", "b">>

\* the scenario of C2 has been sorted
C2_Witness ==
    /\ observerGroups # None
    /\ RegisteredGroups = <<"b", "a">>
    /\ options.groupsByOrder = <<"x">>
    /\ GroupNames(observerGroups) = <<"a", "b">>

\* the names stand in strictly ascending order of their code units
Alphabetical(names) ==
    \A i, j \in 1..Len(names) : i < j => StrLess(names[i], names[j])

\* the names other than server stand in ascending order, server after them
AlphabeticalThenServer(names) ==
    \A i, j \in 1..Len(names) :
        i < j => /\ names[i] # "server"
                 /\ (names[j] = "server" \/ StrLess(names[i], names[j]))

\* the list was last set with an empty or a missing argument
SetToEmptyOrNil(set) == set # <<>> /\ (~set[1].given \/ set[1].value = <<>>)

\* C12 as stated: once the priority list has been set to the empty list or
\* to nil, with setGroupsByOrder or with setPhasesByOrder, the groups and the
\* phases computed from it stand in alphabetical order of their names.
C12_EmptyOrNilAlphabetical ==
    /\ (observerGroups # None /\ SetToEmptyOrNil(orderSet.groups))
           => Alphabetical(GroupNames(observerGroups))
    /\ (middlewarePhases # None /\ SetToEmptyOrNil(orderSet.phases))
           => Alphabetical(PhaseNames(middlewarePhases))

\* C12 amended: once the priority list has been set to the empty list, with
\* setGroupsByOrder or with setPhasesByOrder, or to nil with
\* setPhasesByOrder, the list is the empty array and the groups (phases)
\* computed from it stand in alphabetical order of their names; once it has
\* been set to nil with setGroupsByOrder the list is the default ["server"],
\* and the groups stand in alphabetical order with server after the others.
C12_EmptyAlphabeticalNilDefault ==
    /\ SetToEmptyOrNil(orderSet.groups) =>
           /\ options.groupsByOrder =
                  IF orderSet.groups[1].given THEN <<>> ELSE <<"server">>
           /\ observerGroups # None =>
                  IF orderSet.groups[1].given
                  THEN Alphabetical(GroupNames(observerGroups))
                  ELSE AlphabeticalThenServer(GroupNames(observerGroups))
    /\ SetToEmptyOrNil(orderSet.phases) =>
           /\ mwOptions.phasesByOrder = <<>>
           /\ middlewarePhases # None =>
                  Alphabetical(PhaseNames(middlewarePhases))

\* after setGroupsByOrder(nil) three groups were sorted with server last
C12_Witness ==
    /\ orderSet.groups # <<>>
    /\ ~orderSet.groups[1].given
    /\ observerGroups # None
    /\ GroupNames(observerGroups) = <<"a", "x", "server">>

(***************************************************************************)
(* Properties of getObserverGroup.                                         *)
(***************************************************************************)
\* the first name of the list that the binding carries as a tag with the
\* name as its value, Undefined when there is none
FirstLiteralGroup(binding, order) ==
    LET hits == {i \in 1..Len(order) : TagOf(binding, order[i]) = order[i]}
    IN  IF hits = {} THEN Undefined
        ELSE order[CHOOSE i \in hits : \A j \in hits : i <= j]

\* C11: the group of a binding is the value of its explicit group tag when
\* its tag map contains that tag; otherwise the first name of the priority
\* list, in list order, that the binding carries as a tag whose value is the
\* name; otherwise the empty string.
C11_GroupOfBinding ==
    observerGroup # <<>> =>
        LET binding == observerGroup[1].binding
            literal == FirstLiteralGroup(binding, options.groupsByOrder)
        IN  observerGroup[1].group =
                IF LIFE_CYCLE_OBSERVER_GROUP \in DOMAIN binding.tagMap
                THEN binding.tagMap[LIFE_CYCLE_OBSERVER_GROUP]
                ELSE IF literal # Undefined THEN literal ELSE ""

\* the classification with the explicit group tag counting only when its
\* value is not empty, which is how `if (!group)` reads it
GroupOfBindingNonEmptyTag ==
    observerGroup # <<>> =>
        LET binding == observerGroup[1].binding
            literal == FirstLiteralGroup(binding, options.groupsByOrder)
        IN  observerGroup[1].group =
                IF Truthy(TagOf(binding, LIFE_CYCLE_OBSERVER_GROUP))
                THEN binding.tagMap[LIFE_CYCLE_OBSERVER_GROUP]
                ELSE IF literal # Undefined THEN literal ELSE ""

(***************************************************************************)
(* Properties of start() and stop().                                       *)
(***************************************************************************)
Last(arr) == arr[Len(arr)]

DeclaredEvents == IF call.kind = "start" THEN StartEvents ELSE StopEvents

\* the group names a call notified of an event, in the order it notified them
GroupsNotified(notified, event) ==
    LET of == SelectSeq(notified, LAMBDA p : p[1] = event)
    IN  [i \in 1..Len(of) |-> of[i][2]]

\* the observers registered when the latest call began
SeenObservers == findObserverBindings(seen.ctx)

\* the position of the binding of a key in the context the latest call saw
KeyPos(key) == CHOOSE i \in 1..Len(seen.ctx) : seen.ctx[i].key = key

\* the latest call notified event after event, each across all groups in order
NotifiedEventByEvent ==
    \A i \in 1..Len(hist.notified) :
        hist.notified[i] =
            <<DeclaredEvents[((i - 1) \div Len(call.groups)) + 1],
              call.groups[((i - 1) % Len(call.groups)) + 1].group>>

\* C3: when the observers and the options are those of the start() that
\* resolved just before, the groups a resolved stop() notified of each of its
\* events are, in order, the reverse of the groups that start() notified.
C3_StopReversesStart ==
    (/\ call.kind = "stop"
     /\ call.status = "resolved"
     /\ prev # <<>>
     /\ findObserverBindings(prev[1].seen.ctx) = SeenObservers
     /\ prev[1].seen.options = seen.options)
    => \A k \in 1..Len(StopEvents) :
           GroupsNotified(hist.notified, StopEvents[k])
               = Reverse(GroupsNotified(prev[1].notified, StartEvents[k]))

\* a stop() of three groups has resolved after a start() of the same observers
C3_Witness ==
    /\ call.kind = "stop"
    /\ call.status = "resolved"
    /\ prev # <<>>
    /\ findObserverBindings(prev[1].seen.ctx) = SeenObservers
    /\ prev[1].seen.options = seen.options
    /\ GroupsNotified(hist.notified, "stop") = <<"server", "db", "">>

\* C4: a call notifies its events in the declared order, each across all the
\* groups, and it begins no notification of an event before every member of
\* every group has settled its notification of each earlier event.
C4_EventsInOrder ==
    call.id > 0 =>
        /\ NotifiedEventByEvent
        /\ \A i \in 1..Len(hist.began) :
               \A k \in 1..(indexOf(DeclaredEvents, hist.began[i].event)) :
                   \A g \in 1..Len(call.groups) :
                       \A m \in 1..Len(call.groups[g].bindings) :
                           Entry(DeclaredEvents[k], call.groups[g], m) \in hist.settled

\* a start() of several groups has resolved after all three events
C4_Witness ==
    /\ call.kind = "start"
    /\ call.status = "resolved"
    /\ Len(call.groups) >= 2
    /\ Len(hist.notified) = Len(StartEvents) * Len(call.groups)

\* C5: in parallel mode every notification that has not settled belongs to
\* the group the call entered last, and every notification begun for another
\* group has settled.
C5_GroupsNeverOverlap ==
    (call.id > 0 /\ Parallel(seen.options) /\ hist.notified # <<>>) =>
        /\ \A t \in notifiers : <<t.event, t.group>> = Last(hist.notified)
        /\ \A i \in 1..Len(hist.began) :
               <<hist.began[i].event, hist.began[i].group>> # Last(hist.notified)
                   => hist.began[i] \in hist.settled

\* in parallel mode two members of a later group are outstanding together
C5_Witness ==
    /\ call.status = "running"
    /\ Parallel(seen.options)
    /\ Len(hist.notified) >= 2
    /\ Cardinality(notifiers) >= 2

\* C6: in sequential mode at most one notification is outstanding, it is the
\* one begun last, every notification begun before it has settled, and the
\* members of a group are begun in registration order.
C6_SequentialOneAtATime ==
    (call.id > 0 /\ ~Parallel(seen.options)) =>
        /\ Cardinality(notifiers) <= 1
        /\ \A t \in notifiers : EntryOf(t) = Last(hist.began)
        /\ \A i \in 1..(Len(hist.began) - 1) : hist.began[i] \in hist.settled
        /\ \A i, j \in 1..Len(hist.began) :
               (/\ i < j
                /\ hist.began[i].event = hist.began[j].event
                /\ hist.began[i].group = hist.began[j].group)
               => KeyPos(hist.began[i].key) < KeyPos(hist.began[j].key)

\* in sequential mode the second member of a group is being notified
C6_Witness ==
    /\ call.status = "running"
    /\ ~Parallel(seen.options)
    /\ call.mi = 2
    /\ notifiers # {}

\* C7 as stated: in parallel mode, once the call has rejected no notification
\* of that call is outstanding.
C7_RejectsAfterAllSettled ==
    (call.status = "rejected" /\ Parallel(seen.options)) => notifiers = {}

\* C8: a call has rejected exactly when a notification of it has failed; it
\* rejected with the error of the first failure, the failing group is the
\* last it notified, and in sequential mode the failing member is the last
\* it began.
C8_FailureAborts ==
    call.id > 0 =>
        /\ (hist.failed # <<>>) <=> (call.status = "rejected")
        /\ call.status = "rejected" =>
               /\ call.error = hist.failed[1]
               /\ Last(hist.notified) = <<call.error.event, call.error.group>>
               /\ ~Parallel(seen.options) => Last(hist.began) = call.error

\* in sequential mode a call has rejected with members, groups and events left
C8_Witness ==
    /\ call.status = "rejected"
    /\ ~Parallel(seen.options)
    /\ call.mi < Len(call.groups[call.gi].bindings)
    /\ call.gi < Len(call.groups)
    /\ call.ei < Len(call.events)

\* C9: the groups of a stop() hold their members in registration order, in
\* sequential mode it begins the members of a group in that order, and it
\* notifies preStop, stop, postStop in this order, each across all groups.
C9_StopKeepsMemberOrder ==
    call.kind = "stop" =>
        /\ \A g \in 1..Len(call.groups) :
               call.groups[g].bindings =
                   SelectSeq(SeenObservers, LAMBDA b :
                       getObserverGroup(b, seen.options.groupsByOrder)
                           = call.groups[g].group)
        /\ ~Parallel(seen.options) =>
               \A i, j \in 1..Len(hist.began) :
                   (/\ i < j
                    /\ hist.began[i].event = hist.began[j].event
                    /\ hist.began[i].group = hist.began[j].group)
                   => KeyPos(hist.began[i].key) < KeyPos(hist.began[j].key)
        /\ \A i \in 1..Len(hist.notified) :
               hist.notified[i][1] = StopEvents[((i - 1) \div Len(call.groups)) + 1]

\* a sequential stop() of two groups, one of two members, has resolved
C9_Witness ==
    /\ call.kind = "stop"
    /\ call.status = "resolved"
    /\ ~Parallel(seen.options)
    /\ Len(call.groups) = 2
    /\ \E g \in 1..2 : Len(call.groups[g].bindings) = 2

\* the bindings of the groups of the latest call, group after group
RECURSIVE Members(_)
Members(groups) ==
    IF groups = <<>> THEN <<>>
    ELSE Head(groups).bindings \o Members(Tail(groups))

\* C10: the groups of a call hold exactly the observers registered when the
\* call began, each once, with the tags it had then and in the group these
\* tags give it; the call notifies no other key, and once it has resolved it
\* has notified every one of them of every event.
C10_GroupsOfTheCall ==
    call.id > 0 =>
        /\ Range(Members(call.groups)) = Range(SeenObservers)
        /\ Len(Members(call.groups)) = Len(SeenObservers)
        /\ \A g \in 1..Len(call.groups) :
               \A m \in 1..Len(call.groups[g].bindings) :
                   getObserverGroup(call.groups[g].bindings[m],
                                    seen.options.groupsByOrder) = call.groups[g].group
        /\ \A i \in 1..Len(hist.began) :
               \E b \in Range(SeenObservers) :
                   /\ b.key = hist.began[i].key
                   /\ getObserverGroup(b, seen.options.groupsByOrder)
                          = hist.began[i].group
        /\ call.status = "resolved" =>
               \A b \in Range(SeenObservers), k \in 1..Len(DeclaredEvents) :
                   \E i \in 1..Len(hist.began) :
                       /\ hist.began[i].key = b.key
                       /\ hist.began[i].event = DeclaredEvents[k]

\* a stop() has notified observers that differ from those of the start() before
C10_Witness ==
    /\ call.id = 2
    /\ call.status = "resolved"
    /\ prev # <<>>
    /\ findObserverBindings(prev[1].seen.ctx) # SeenObservers
    /\ hist.began # <<>>

(***************************************************************************)
(* Properties of the invocations.                                          *)
(***************************************************************************)
\* the observer a key was bound to when the latest call began
ObserverSeen(key) == seen.ctx[KeyPos(key)].value

\* the notifications of the latest call whose observer was resolved and has
\* no function for the event
ResolvedWithoutMethod ==
    {e \in hist.resolved : e.event \notin ObserverSeen(e.key)}

\* C13: an observer that is resolved and has no function for the event is
\* not invoked for it, its notification settles and is none of the failures
\* of the call, and the call goes on as after a completed notification: while
\* it runs a notification is outstanding, in sequential mode the one begun
\* last, and once it has resolved it has notified every group of every event.
C13_MissingMethodSkipped ==
    call.id > 0 =>
        /\ \A e \in ResolvedWithoutMethod :
               /\ CopiesIn(e, hist.invoked) = 0
               /\ e \in hist.settled
               /\ e \notin Range(hist.failed)
        /\ call.status = "running" =>
               /\ notifiers # {}
               /\ ~Parallel(seen.options) => Last(hist.began) \notin hist.settled
        /\ call.status = "resolved" =>
               Len(hist.notified) = Len(DeclaredEvents) * Len(call.groups)

\* a call of two observers has resolved: one without a function for any
\* event, the other invoked for each
C13_Witness ==
    /\ call.status = "resolved"
    /\ Len(SeenObservers) = 2
    /\ Cardinality(ResolvedWithoutMethod) = Len(DeclaredEvents)
    /\ Cardinality(BagToSet(hist.invoked)) = Len(DeclaredEvents)

\* the notification of an observer of the latest call for an event
EntryFor(binding, event) ==
    [event |-> event,
     group |-> getObserverGroup(binding, seen.options.groupsByOrder),
     key   |-> binding.key]

\* C19: a call invokes no observer twice for an event, and once it has
\* resolved, in either mode, it has invoked every observer that was
\* registered when it began and has the function for an event exactly once
\* for that event.
C19_InvokedExactlyOnce ==
    call.id > 0 =>
        /\ \A e \in BagToSet(hist.invoked) : CopiesIn(e, hist.invoked) = 1
        /\ call.status = "resolved" =>
               \A i \in 1..Len(SeenObservers), k \in 1..Len(DeclaredEvents) :
                   LET binding == SeenObservers[i]
                       event   == DeclaredEvents[k]
                   IN  event \in binding.value =>
                           CopiesIn(EntryFor(binding, event), hist.invoked) = 1

\* a parallel stop() of three observers in two groups has resolved, having
\* invoked the one with all functions three times and the one with stop once
C19_Witness ==
    /\ call.kind = "stop"
    /\ call.status = "resolved"
    /\ Parallel(seen.options)
    /\ Len(SeenObservers) = 3
    /\ Len(call.groups) = 2
    /\ Cardinality(BagToSet(hist.invoked)) = 4

\* the notifications the latest call has begun for the group it entered last
BegunOfLastGroup ==
    {i \in 1..Len(hist.began) :
        <<hist.began[i].event, hist.began[i].group>> = Last(hist.notified)}

\* C16: unless the options set parallel to false (the option left out, or
\* no options given), a call that has entered a group has begun the
\* notification of every member of the group, and no notification of
\* another group is outstanding.
C16_ParallelUnlessSetFalse ==
    (/\ call.id > 0
     /\ hist.notified # <<>>
     /\ ~("parallel" \in DOMAIN seen.options /\ seen.options.parallel = FALSE))
    => /\ Cardinality(BegunOfLastGroup) = Len(call.groups[call.gi].bindings)
       /\ \A t \in notifiers : <<t.event, t.group>> = Last(hist.notified)

(***************************************************************************)
(* Termination of start() and stop().                                      *)
(***************************************************************************)
\* the latest call has notified every group of every event, and every
\* member's notification has settled
AllProcessed ==
    \A k \in 1..Len(DeclaredEvents), g \in 1..Len(call.groups) :
        /\ <<DeclaredEvents[k], call.groups[g].group>> \in Range(hist.notified)
        /\ \A m \in 1..Len(call.groups[g].bindings) :
               Entry(DeclaredEvents[k], call.groups[g], m) \in hist.settled

\* C17: when every resolution and every invocation settles eventually, a
\* running start() or stop() eventually returns, and whenever it has returned
\* without error every group has processed all three events.
C17_CallReturns ==
    /\ (call.status = "running") ~> (call.status # "running")
    /\ [](call.status = "resolved" => AllProcessed)

\* a sequential start() of three groups has returned without error
C17_Witness ==
    /\ call.kind = "start"
    /\ call.status = "resolved"
    /\ ~Parallel(seen.options)
    /\ Len(call.groups) = 3
    /\ AllProcessed

(***************************************************************************)
(* The sorted groups as a partition of the bindings.                       *)
(***************************************************************************)
\* the position of a binding among the input bindings, by its key
PositionIn(bindings, binding) ==
    CHOOSE i \in 1..Len(bindings) : bindings[i].key = binding.key

\* groups (or phases) partition the input: every input binding is a member
\* once, no group is empty and the members of a group stand in input order
Partitions(groups, bindings) ==
    /\ Len(Members(groups)) = Len(bindings)
    /\ Range(Members(groups)) = Range(bindings)
    /\ \A g \in 1..Len(groups) :
           /\ groups[g].bindings # <<>>
           /\ \A i, j \in 1..Len(groups[g].bindings) :
                  i < j => PositionIn(bindings, groups[g].bindings[i])
                               < PositionIn(bindings, groups[g].bindings[j])

\* no name stands twice
Distinct(names) ==
    \A i, j \in 1..Len(names) : i # j => names[i] # names[j]

\* C18: the groups returned by sortObserverBindingsByGroup and the phases
\* returned by sortMiddlewareBindingsByPhase hold every input binding exactly
\* once, each name once, no empty group, and the members of a group in the
\* order they have in the input.
C18_SortingPartitions ==
    /\ observerGroups # None =>
           /\ Partitions(observerGroups, findObserverBindings(ctx))
           /\ Distinct(GroupNames(observerGroups))
    /\ middlewarePhases # None =>
           /\ Partitions(middlewarePhases, MiddlewareViewBindings(ctx))
           /\ Distinct(PhaseNames(middlewarePhases))

\* three bindings were sorted into two groups, the first and the third
\* binding in the same group, by both registries
C18_Witness ==
    /\ observerGroups # None
    /\ middlewarePhases # None
    /\ Len(ctx) = 3
    /\ \E g \in 1..Len(observerGroups) :
           observerGroups[g].bindings = <<ctx[1], ctx[3]>>
    /\ \E p \in 1..Len(middlewarePhases) :
           middlewarePhases[p].bindings = <<ctx[1], ctx[3]>>

(***************************************************************************)
(* Properties of createExpressRouter().                                    *)
(***************************************************************************)
RECURSIVE Dispatch(_)
\* the mounts of a root router in the order a request meets them
Dispatch(pipeline) ==
    IF pipeline = <<>> THEN <<>>
    ELSE Head(pipeline).mounts \o Dispatch(Tail(pipeline))

\* the binding of a key among the bindings the latest call found
SeenBinding(key) ==
    router.seen.bindings[CHOOSE i \in 1..Len(router.seen.bindings) :
                             router.seen.bindings[i].key = key]

\* the bindings the latest call found are M1 {phase auth, path /api},
\* M2 {phase auth} and M3 {phase log}, under the priority ["log", "auth"]
ScenarioM1M2M3 ==
    /\ [i \in 1..Len(router.seen.bindings) |-> router.seen.bindings[i].tagMap]
           = <<asMiddlewareBinding("auth", "/api"), asMiddlewareBinding("auth", Undefined),
               asMiddlewareBinding("log", Undefined)>>
    /\ router.seen.phasesByOrder = <<"log", "auth">>

\* C14: the router a call returns holds the phases in the order
\* sortMiddlewareBindingsByPhase gives the bindings the call found; a phase
\* holds exactly the bindings of that phase, in registration order, each
\* mounted with its own handler, under its path tag when it has one and
\* without a path otherwise; M1 {auth, /api}, M2 {auth}, M3 {log} under
\* ["log", "auth"] are dispatched M3, M1 under /api, M2.
C14_RouterInPhaseOrder ==
    router.status = "resolved" =>
        LET found == router.seen.bindings
            keys(phase) ==
                LET of == SelectSeq(found, LAMBDA b : getMiddlewarePhase(b) = phase)
                IN  [i \in 1..Len(of) |-> of[i].key]
        IN  /\ PhaseNames(router.pipeline) =
                   PhaseNames(sortMiddlewareBindingsByPhase(
                       found, router.seen.phasesByOrder))
            /\ \A p \in 1..Len(router.pipeline) :
                   LET mounts == router.pipeline[p].mounts
                   IN  /\ [i \in 1..Len(mounts) |-> mounts[i].key]
                              = keys(router.pipeline[p].phase)
                       /\ \A i \in 1..Len(mounts) :
                              /\ mounts[i].handler = SeenBinding(mounts[i].key).value
                              /\ mounts[i].path =
                                     TagOf(SeenBinding(mounts[i].key), "path")
            /\ ScenarioM1M2M3 =>
                   Dispatch(router.pipeline) =
                       <<[key     |-> found[3].key, path |-> Undefined,
                          handler |-> found[3].value],
                         [key     |-> found[1].key, path |-> "/api",
                          handler |-> found[1].value],
                         [key     |-> found[2].key, path |-> Undefined,
                          handler |-> found[2].value]>>

\* the router of the scenario has been returned
C14_Witness ==
    /\ router.status = "resolved"
    /\ ScenarioM1M2M3
    /\ Len(Dispatch(router.pipeline)) = 3

\* C15: two calls that found the same middleware bindings and the same
\* phasesByOrder return routers with the same phases in the same order and
\* the same members in the same order in every phase.
C15_SameBindingsSameRouter ==
    \A i, j \in 1..Len(built) :
        built[i].seen = built[j].seen => built[i].pipeline = built[j].pipeline

\* two calls on the same three bindings have returned routers of two phases
C15_Witness ==
    /\ Len(built) = 2
    /\ built[1].seen = built[2].seen
    /\ Len(built[1].seen.bindings) = 3
    /\ Len(built[2].pipeline) = 2

\* C20: whatever is bound or unbound while the values are resolved, every
\* mount the latest call has made holds the handler of the binding it was
\* made for, the call fails only when a value cannot be resolved, and the
\* router it returns mounts every binding it found when it was made.
C20_MountsFromOneSnapshot ==
    router.id > 0 =>
        /\ \A p \in 1..Len(router.pipeline) :
               \A i \in 1..Len(router.pipeline[p].mounts) :
                   LET mount == router.pipeline[p].mounts[i]
                   IN  mount.handler = SeenBinding(mount.key).value
        /\ router.status = "rejected" => router.error = "ResolutionError"
        /\ router.status = "resolved" =>
               Len(Dispatch(router.pipeline)) = Len(router.seen.bindings)

=============================================================================
